---- MODULE Spec2Model ----
(***************************************************************************)
(* Message classification and dispatch of the Teams bot in src/app.py.     *)
(*                                                                         *)
(* A text is a sequence of one-character strings, so that strip, split,    *)
(* lower, the regular expressions and the f-strings are computed and not   *)
(* assumed.  One dispatch is the run of the coroutine the framework starts *)
(* for one inbound message; its position (pc) is the source line of the    *)
(* await it is suspended at.  Each action is the code the event loop runs  *)
(* between two awaits.  The transport (ctx.reply, ctx.send), the metadata  *)
(* fetch and the completion provider are the environment: each of their    *)
(* outcomes is an input of the action that resumes the coroutine.          *)
(***************************************************************************)
EXTENDS Naturals, Sequences, FiniteSets

VARIABLES text, pc, handler, branch, command, args, log, worker, raised,
          overlap, ptext, presult

vars == <<text, pc, handler, branch, command, args, log, worker, raised,
          overlap, ptext, presult>>

(***************************************************************************)
(* Bounds of the model.                                                    *)
(***************************************************************************)
NumDispatch == 3
MaxLen == 3
MaxParseLen == 6

Dispatches == 1..NumDispatch

(***************************************************************************)
(* Python strings.                                                         *)
(***************************************************************************)
\* A character is a one-character string and a text a sequence of them.  The
\* characters are those of code points 0 to 255 (ISO 8859-1), the ones a
\* string of this module can hold; on them the tables below are Python's.
\*
\* The whitespace characters that have no escape, by code point.
VT == ""
FS == ""
GS == ""
RS == ""
US == ""
NEL == ""
NBSP == " "

\* str.strip() and str.split() with no argument: every character for which
\* str.isspace() holds, that is U+0009 to U+000D, U+001C to U+001F, U+0020,
\* U+0085 and U+00A0.
Whitespace ==
    {" ", "\t", "\n", "\r", "\f", VT, FS, GS, RS, US, NEL, NBSP}

\* The characters str.lower() changes, A to Z, U+00C0 to U+00D6 and U+00D8 to
\* U+00DE, and position by position what it changes them to.
UpperCase ==
    <<"A", "B", "C", "D", "E", "F", "G", "H", "I", "J", "K", "L", "M", "N", "O", "P", "Q", "R", "S", "T", "U", "V", "W", "X", "Y", "Z">>
    \o <<"À", "Á", "Â", "Ã", "Ä", "Å", "Æ", "Ç", "È", "É", "Ê", "Ë", "Ì", "Í", "Î", "Ï", "Ð", "Ñ", "Ò", "Ó", "Ô", "Õ", "Ö", "Ø", "Ù", "Ú", "Û", "Ü", "Ý", "Þ">>
LowerCase ==
    <<"a", "b", "c", "d", "e", "f", "g", "h", "i", "j", "k", "l", "m", "n", "o", "p", "q", "r", "s", "t", "u", "v", "w", "x", "y", "z">>
    \o <<"à", "á", "â", "ã", "ä", "å", "æ", "ç", "è", "é", "ê", "ë", "ì", "í", "î", "ï", "ð", "ñ", "ò", "ó", "ô", "õ", "ö", "ø", "ù", "ú", "û", "ü", "ý", "þ">>

LowerChar(c) ==
    IF \E i \in 1..Len(UpperCase) : UpperCase[i] = c
    THEN LowerCase[CHOOSE i \in 1..Len(UpperCase) : UpperCase[i] = c]
    ELSE c

\* str.lower()
lower(s) == [i \in 1..Len(s) |-> LowerChar(s[i])]

RECURSIVE lstrip(_)
lstrip(s) ==
    IF s # <<>> /\ Head(s) \in Whitespace THEN lstrip(Tail(s)) ELSE s

RECURSIVE rstrip(_)
rstrip(s) ==
    IF s # <<>> /\ s[Len(s)] \in Whitespace
    THEN rstrip(SubSeq(s, 1, Len(s) - 1))
    ELSE s

\* str.strip()
strip(s) == rstrip(lstrip(s))

\* str.startswith(prefix)
startswith(s, prefix) ==
    Len(s) >= Len(prefix) /\ SubSeq(s, 1, Len(prefix)) = prefix

RECURSIVE TokenLen(_)
TokenLen(s) ==
    IF s = <<>> \/ Head(s) \in Whitespace THEN 0 ELSE 1 + TokenLen(Tail(s))

\* str.split(): the maximal runs of non-whitespace, in order.
RECURSIVE split(_)
split(s) ==
    LET t == lstrip(s)
        n == TokenLen(t)
    IN  IF t = <<>> THEN <<>>
        ELSE <<SubSeq(t, 1, n)>> \o split(SubSeq(t, n + 1, Len(t)))

\* ' '.join(parts)
RECURSIVE join(_)
join(parts) ==
    IF parts = <<>> THEN <<>>
    ELSE IF Len(parts) = 1 THEN parts[1]
    ELSE parts[1] \o <<" ">> \o join(Tail(parts))

\* needle in s
Contains(s, needle) ==
    \E i \in 1..(Len(s) - Len(needle) + 1) :
        SubSeq(s, i, i + Len(needle) - 1) = needle

\* Python's None: no text is equal to it, a text being a sequence of
\* one-character strings.
None == <<"<None>">>

\* str(x), as the f-strings apply it.
str(x) == IF x = None THEN <<"N", "o", "n", "e">> ELSE x

(***************************************************************************)
(* Slash command parser.                                                   *)
(***************************************************************************)
is_slash_command(t) == startswith(strip(t), <<"/">>)

parse_slash_command_reversed(t) ==
    LET s == strip(t)
        parts == IF s = <<>> THEN <<>> ELSE split(Tail(s))
    IN  IF ~startswith(s, <<"/">>) THEN <<None, <<>>>>
        ELSE IF parts = <<>> THEN <<None, <<>>>>
        ELSE <<lower(parts[1]),
               [i \in 1..(Len(parts) - 1) |-> parts[Len(parts) + 1 - i]]>>

\* (command, args); (None, []) when the text is no command.
parse_slash_command(t) ==
    LET s == strip(t)
        parts == IF s = <<>> THEN <<>> ELSE split(Tail(s))
    IN  IF ~startswith(s, <<"/">>) THEN <<None, <<>>>>
        ELSE IF parts = <<>> THEN <<None, <<>>>>
        ELSE <<lower(parts[1]),
               IF Len(parts) > 1 THEN Tail(parts) ELSE <<>>>>

(***************************************************************************)
(* What is handed to the transport and to the completion provider.         *)
(* A payload is [kind, card, texts]: kind "text" carries one string, kind  *)
(* "card" the card's name and the strings computed into its body.          *)
(***************************************************************************)
Payload(kind, card, texts) == [kind |-> kind, card |-> card, texts |-> texts]

PlainText(msg) == Payload("text", "", <<msg>>)

TypingActivityInput == Payload("typing", "", <<>>)

\* One entry of a dispatch's log: a call made, or the outcome of a call.
Event(ev, p) == [ev |-> ev, kind |-> p.kind, card |-> p.card, texts |-> p.texts]

Outcome(ev, ok, detail) ==
    Event(ev, Payload(IF ok THEN "ok" ELSE "error", "", <<detail>>))

GreetingReply_remembers ==
    PlainText(IF \E m \in Dispatches : pc[m] = "done"
              THEN <<"H", "e", "l", "l", "o", " ", "a", "g", "a", "i", "n", "!">>
              ELSE <<"H", "e", "l", "l", "o", "!", " ", "H", "o", "w", " ", "c", "a", "n", " ", "I", " ", "a", "s", "s", "i", "s", "t", " ", "y", "o", "u", " ", "t", "o", "d", "a", "y", "?">>)

GreetingReply == PlainText(<<"H", "e", "l", "l", "o", "!", " ", "H", "o", "w", " ", "c", "a", "n", " ", "I", " ", "a", "s", "s", "i", "s", "t", " ", "y", "o", "u", " ", "t", "o", "d", "a", "y", "?">>)

SearchUsage ==
    PlainText(<<"P", "l", "e", "a", "s", "e", " ", "p", "r", "o", "v", "i", "d", "e", " ", "a", " ", "s", "e", "a", "r", "c", "h", " ", "q", "u", "e", "r", "y", ".", " ", "U", "s", "a", "g", "e", ":", " ", "/", "s", "e", "a", "r", "c", "h", " ", "[", "y", "o", "u", "r", " ", "q", "u", "e", "r", "y", "]">>)

UnknownReply_unnamed(cmd) ==
    PlainText(<<"U", "n", "k", "n", "o", "w", "n", " ", "c", "o", "m", "m", "a", "n", "d", ".", " ", "T", "y", "p", "e", " ", "/", "h", "e", "l", "p", " ", "t", "o", " ", "s", "e", "e", " ", "a", "v", "a", "i", "l", "a", "b", "l", "e", " ", "c", "o", "m", "m", "a", "n", "d", "s", ".">>)

UnknownReply(cmd) ==
    PlainText(<<"U", "n", "k", "n", "o", "w", "n", " ", "c", "o", "m", "m", "a", "n", "d", ":", " ", "/">> \o str(cmd)
              \o <<".", " ", "T", "y", "p", "e", " ", "/", "h", "e", "l", "p", " ", "t", "o", " ", "s", "e", "e", " ", "a", "v", "a", "i", "l", "a", "b", "l", "e", " ", "c", "o", "m", "m", "a", "n", "d", "s", ".">>)

SearchPrompt(query) == <<"S", "e", "a", "r", "c", "h", " ", "a", "n", "d", " ", "p", "r", "o", "v", "i", "d", "e", " ", "i", "n", "f", "o", "r", "m", "a", "t", "i", "o", "n", " ", "a", "b", "o", "u", "t", ":", " ">> \o query

SearchErrorReply(detail) ==
    PlainText(<<"I", " ", "e", "n", "c", "o", "u", "n", "t", "e", "r", "e", "d", " ", "a", "n", " ", "e", "r", "r", "o", "r", " ", "w", "h", "i", "l", "e", " ", "s", "e", "a", "r", "c", "h", "i", "n", "g", ":", " ">> \o detail
              \o <<".", " ", "P", "l", "e", "a", "s", "e", " ", "t", "r", "y", " ", "a", "g", "a", "i", "n", ".">>)

error_message(detail) ==
    PlainText(<<"I", " ", "e", "n", "c", "o", "u", "n", "t", "e", "r", "e", "d", " ", "a", "n", " ", "e", "r", "r", "o", "r", ":", " ">> \o detail \o <<".", " ", "P", "l", "e", "a", "s", "e", " ", "t", "r", "y", " ", "a", "g", "a", "i", "n", ".">>)

help_card == Payload("card", "help_card", <<>>)

status_card == Payload("card", "status_card", <<>>)

search_card(query, answer) ==
    Payload("card", "search_card", <<<<"S", "e", "a", "r", "c", "h", " ", "R", "e", "s", "u", "l", "t", "s", ":", " ">> \o query, answer>>)

\* create_webpage_card as handle_webpage_request calls it: every argument
\* is a literal.
adaptive_card == Payload("card", "webpage_card", <<<<"D", "a", "s", "h", "b", "o", "a", "r", "d">>>>)

\* og.get(k) is falsy for None and for the empty string.
Truthy(x) == x # None /\ x # <<>>

create_og_preview_card(og) ==
    Payload("card", "og_preview_card",
            (IF Truthy(og.image) THEN <<og.image>> ELSE <<>>)
            \o (IF Truthy(og.title) THEN <<og.title>> ELSE <<>>)
            \o (IF Truthy(og.description) THEN <<og.description>> ELSE <<>>)
            \o <<<<"o", "g", "p", ".", "m", "e">>>>)

\* answer = response.content if hasattr(response, 'content') else str(response)
AnswerOf(response) ==
    IF response.has_content THEN response.content ELSE response.repr

(***************************************************************************)
(* The environment's outcomes.                                             *)
(***************************************************************************)
\* fetch_open_graph_metadata never raises: it returns the dictionary, with
\* None for what it did not find (all None when the request failed).
OgResults ==
    { [title |-> None, description |-> None, image |-> None],
      [title |-> <<"O", "G", "P">>, description |-> None, image |-> None],
      [title |-> <<"O", "G", "P">>, description |-> <<"T", "h", "e", " ", "O", "p", "e", "n", " ", "G", "r", "a", "p", "h", " ", "p", "r", "o", "t", "o", "c", "o", "l">>,
       image |-> <<"h", "t", "t", "p", "s", ":", "/", "/", "o", "g", "p", ".", "m", "e", "/", "l", "o", "g", "o", ".", "p", "n", "g">>] }

\* groq_llm.invoke returns a message or raises an Exception.
LlmResults ==
    { [ok |-> TRUE, has_content |-> TRUE, content |-> <<"4", "2">>, repr |-> <<>>, detail |-> <<>>],
      [ok |-> TRUE, has_content |-> FALSE, content |-> <<>>, repr |-> <<"r", "a", "w">>, detail |-> <<>>],
      [ok |-> FALSE, has_content |-> FALSE, content |-> <<>>, repr |-> <<>>, detail |-> <<"t", "i", "m", "e", "o", "u", "t">>],
      [ok |-> FALSE, has_content |-> FALSE, content |-> <<>>, repr |-> <<>>, detail |-> <<"r", "a", "t", "e", " ", "l", "i", "m", "i", "t">>] }

\* The results given to the dispatches that run concurrently: an answer and
\* a failure.
ConcLlmResults == {r \in LlmResults : r.has_content \/ r.detail = <<"t", "i", "m", "e", "o", "u", "t">>}

\* str(e) of the exception a failed ctx.send or ctx.reply raises.
TransportError == <<"s", "e", "n", "d", " ", "f", "a", "i", "l", "e", "d">>

(***************************************************************************)
(* Registration of the handlers, in the order of the decorators.           *)
(***************************************************************************)
\* re.compile(r"hello|hi|greetings")
GreetingPattern ==
    [alts |-> {<<"h", "e", "l", "l", "o">>, <<"h", "i">>, <<"g", "r", "e", "e", "t", "i", "n", "g", "s">>}, ignorecase |-> FALSE]

\* re.compile(r"open graph protocol test")
OpenGraphPattern ==
    [alts |-> {<<"o", "p", "e", "n", " ", "g", "r", "a", "p", "h", " ", "p", "r", "o", "t", "o", "c", "o", "l", " ", "t", "e", "s", "t">>}, ignorecase |-> FALSE]

\* re.compile(r"dashboard", re.IGNORECASE)
DashboardPattern == [alts |-> {<<"d", "a", "s", "h", "b", "o", "a", "r", "d">>}, ignorecase |-> TRUE]

NoPattern == [alts |-> {}, ignorecase |-> FALSE]

Registrations_catchall_first ==
    << [on |-> "message", pattern |-> NoPattern, handler |-> "handle_message"],
       [on |-> "pattern", pattern |-> GreetingPattern, handler |-> "handle_greeting"],
       [on |-> "pattern", pattern |-> OpenGraphPattern, handler |-> "open_graph_metatags"],
       [on |-> "pattern", pattern |-> DashboardPattern, handler |-> "handle_webpage_request"] >>

Registrations_dashboard_first ==
    << [on |-> "pattern", pattern |-> DashboardPattern, handler |-> "handle_webpage_request"],
       [on |-> "pattern", pattern |-> GreetingPattern, handler |-> "handle_greeting"],
       [on |-> "pattern", pattern |-> OpenGraphPattern, handler |-> "open_graph_metatags"],
       [on |-> "message", pattern |-> NoPattern, handler |-> "handle_message"] >>

Registrations ==
    << [on |-> "pattern", pattern |-> GreetingPattern, handler |-> "handle_greeting"],
       [on |-> "pattern", pattern |-> OpenGraphPattern, handler |-> "open_graph_metatags"],
       [on |-> "pattern", pattern |-> DashboardPattern, handler |-> "handle_webpage_request"],
       [on |-> "message", pattern |-> NoPattern, handler |-> "handle_message"] >>

\* The framework's selector of a registration: a pattern is looked for
\* anywhere in a non-empty text; on_message takes every message.
Accepts(reg, t) ==
    \/ reg.on = "message"
    \/ /\ reg.on = "pattern"
       /\ t # <<>>
       /\ \E alt \in reg.pattern.alts :
              IF reg.pattern.ignorecase
              THEN Contains(lower(t), lower(alt))
              ELSE Contains(t, alt)

\* The framework's router: of the registrations that accept the message, the
\* earliest registered runs; a later one would run only if that handler
\* called ctx.next(), which none of this program does.
SelectHandler(t) ==
    LET first == CHOOSE i \in 1..Len(Registrations) :
                     /\ Accepts(Registrations[i], t)
                     /\ \A j \in 1..(i - 1) : ~Accepts(Registrations[j], t)
    IN  Registrations[first].handler

(***************************************************************************)
(* Inbound texts.                                                          *)
(***************************************************************************)
BoundedSeq(S, n) == UNION {[1..k -> S] : k \in 0..n}

Alphabet == {"/", " ", "h", "i"}

SampleTexts ==
    { <<"h", "e", "l", "l", "o">>, <<"s", "a", "y", " ", "h", "i">>, <<"H", "i">>, <<"g", "r", "e", "e", "t", "i", "n", "g", "s">>,
      <<"o", "p", "e", "n", " ", "g", "r", "a", "p", "h", " ", "p", "r", "o", "t", "o", "c", "o", "l", " ", "t", "e", "s", "t">>, <<"o", "p", "e", "n", " ", "g", "r", "a", "p", "h", " ", "p", "r", "o", "t", "o", "c", "o", "l", " ", "t", "e", "s", "t", " ", "h", "i">>,
      <<"d", "a", "s", "h", "b", "o", "a", "r", "d">>, <<"D", "a", "s", "h", "B", "o", "a", "r", "d">>, <<"h", "i", " ", "d", "a", "s", "h", "b", "o", "a", "r", "d">>, <<"d", "a", "s", "h", "b", "o", "a", "r", "d", " ", "h", "i">>,
      <<"d", "a", "s", "h", "b", "o", "a", "r", "d", " ", "o", "p", "e", "n", " ", "g", "r", "a", "p", "h", " ", "p", "r", "o", "t", "o", "c", "o", "l", " ", "t", "e", "s", "t">>,
      <<"/", "h", "e", "l", "p">>, <<" ", "/", "H", "E", "L", "P", " ", "m", "e">>, <<"/", "s", "t", "a", "t", "u", "s">>, <<"/", "S", "t", "a", "t", "u", "s", "\t">>,
      <<"/", "s", "e", "a", "r", "c", "h">>, <<"/", "s", "e", "a", "r", "c", "h", " ", " ">>, <<"/", "s", "e", "a", "r", "c", "h", " ", "f", "o", "o", " ", "b", "a", "r">>, <<"/", "S", "e", "a", "r", "c", "h", " ", "F", "o", "o", "\t", "B", "A", "R">>,
      <<"/", "s", "e", "a", "r", "c", "h", " ", "h", "i">>, <<"/", "s", "e", "a", "r", "c", "h", " ", "d", "a", "s", "h", "b", "o", "a", "r", "d">>,
      <<"/", "u", "n", "k", "n", "o", "w", "n", "c", "m", "d">>, <<"/", "F", "o", "o", " ", "x">>, <<"/">>, <<" ", "/", " ">>, <<"/", " ", "h", "e", "l", "p">>,
      <<"s", "t", "a", "t", "u", "s">>, <<"w", "h", "y", "?">>, <<"h", "e", "l", "p", " ", "/", "s", "e", "a", "r", "c", "h">>,
      <<NBSP, "/", "h", "e", "l", "p">>, <<"/", "h", "e", "l", "p", VT, "m", "e">>, <<US, "/", "s", "t", "a", "t", "u", "s", FS>>,
      <<"/", "s", "e", "a", "r", "c", "h", " ", "a", NBSP, "b">>, <<"/", "s", "e", "a", "r", "c", "h", NEL>>, <<"/", "É", "T", "É", " ", "x">>,
      <<GS, "/", RS>>, <<"c", "a", "f", "É">> }

Texts == SampleTexts \cup BoundedSeq(Alphabet, MaxLen)

\* The texts of the dispatches that run concurrently: one per handler that
\* awaits more than its one send, and a greeting.
ConcTexts ==
    { <<"h", "i">>, <<"o", "p", "e", "n", " ", "g", "r", "a", "p", "h", " ", "p", "r", "o", "t", "o", "c", "o", "l", " ", "t", "e", "s", "t">>, <<"/", "s", "e", "a", "r", "c", "h", " ", "f", "o", "o">>, <<"w", "h", "y", "?">> }

ParseAlphabet == {"/", " ", "\t", NBSP, "a", "B", "É"}

\* Longer texts: commands with two and three arguments.
ParseSamples ==
    { <<"/", "s", "e", "a", "r", "c", "h", " ", "f", "o", "o", " ", "b", "a", "r">>, <<"/", "S", "e", "a", "r", "c", "h", " ", "F", "o", "o", "\t", "B", "A", "R", " ", " ", "b", "a", "z">>, <<" ", "/", "H", "E", "L", "P", " ", "m", "e", " ", "n", "o", "w", " ">>,
      <<"/", "a", VT, "B", NEL, "c", FS, "D">>, <<"/", "s", "e", "a", "r", "c", "h", " ", "b", " ", "a", " ", "b">>, <<NBSP, "/", "É", "T", "É", " ", "x", NBSP, "X", VT>> }

ParseTexts == BoundedSeq(ParseAlphabet, MaxParseLen) \cup ParseSamples

(***************************************************************************)
(* State.                                                                  *)
(*   text[m]     the text of dispatch m's message                          *)
(*   pc[m]       "idle", the line of the await m is suspended at, "done"   *)
(*   handler[m]  the handler the framework started for m                   *)
(*   branch[m]   the branch handle_message took for m                      *)
(*   command[m], args[m]   what parse_slash_command returned to m          *)
(*   log[m]      the calls m made and the outcomes it was given, in order  *)
(*   worker[m]   m's completion call: whether it runs, on which thread,    *)
(*               and what it returned                                      *)
(*   raised[m]   the exception that left m's handler                       *)
(*   overlap[m]  the watched dispatches whose completion call was in       *)
(*               flight and awaited when m's message arrived               *)
(*   ptext, presult   input and result of the parser on its own            *)
(***************************************************************************)
Unset == <<>>

\* The future of a call that was not made or has not returned.
NoResult ==
    [ok |-> FALSE, has_content |-> FALSE, content |-> <<>>, repr |-> <<>>, detail |-> <<>>]

IdleWorker == [st |-> "idle", thread |-> "none", result |-> NoResult]

Init ==
    /\ text = [m \in Dispatches |-> <<>>]
    /\ pc = [m \in Dispatches |-> "idle"]
    /\ handler = [m \in Dispatches |-> "none"]
    /\ branch = [m \in Dispatches |-> "none"]
    /\ command = [m \in Dispatches |-> None]
    /\ args = [m \in Dispatches |-> <<>>]
    /\ log = [m \in Dispatches |-> <<>>]
    /\ worker = [m \in Dispatches |-> IdleWorker]
    /\ raised = [m \in Dispatches |-> "none"]
    /\ overlap = [m \in Dispatches |-> {}]
    /\ ptext = <<>>
    /\ presult = Unset

(***************************************************************************)
(* What a piece of a handler does between two awaits: the calls it makes   *)
(* (the last one is the call it then awaits) and the line it stops at.     *)
(***************************************************************************)
Step(at, evs) == [pc |-> at, evs |-> evs, exc |-> "none"]

\* A piece that ends the handler by an exception nothing in it catches.
Propagate(exc) == [pc |-> "done", evs |-> <<>>, exc |-> exc]

Invoke(prompt) == Event("invoke", Payload("prompt", "", <<prompt>>))

Send(p) == Event("send", p)

Typing == Event("typing", TypingActivityInput)

Fetch(url) == Event("fetch", Payload("url", "", <<url>>))

\* await ctx.send("Hello! How can I assist you today?")
handle_greeting == Step("L70", <<Send(GreetingReply)>>)

\* og_data = await fetch_open_graph_metadata("https://ogp.me/")
open_graph_metatags == Step("L196", <<Fetch(<<"h", "t", "t", "p", "s", ":", "/", "/", "o", "g", "p", ".", "m", "e", "/">>)>>)

\* card = create_og_preview_card(og_data); await ctx.send(card)
open_graph_metatags_send(og_data) ==
    Step("L198", <<Send(create_og_preview_card(og_data))>>)

\* await ctx.send(adaptive_card)
handle_webpage_request == Step("L265", <<Send(adaptive_card)>>)

\* await ctx.send(help_card)
handle_help_command == Step("L309", <<Send(help_card)>>)

\* await ctx.send(status_card)
handle_status_command == Step("L380", <<Send(status_card)>>)

handle_search_command_no_check(a) == Step("L319", <<Typing>>)

\* Lines 314-319: the usage hint, or the typing indicator before the call.
handle_search_command(a) ==
    IF a = <<>>
    THEN Step("L315", <<Send(SearchUsage)>>)
    ELSE Step("L319", <<Typing>>)

\* Lines 323-324: the prompt handed to the executor.
handle_search_command_invoke(a) ==
    Step("L324", <<Invoke(SearchPrompt(join(a)))>>)

handle_search_command_result_retry(a, r) ==
    IF r.ok
    THEN Step("L346", <<Send(search_card(join(a), AnswerOf(r)))>>)
    ELSE Step("L324", <<Invoke(SearchPrompt(join(a)))>>)

\* Lines 325-346 on a result, 347-349 on an exception of the call.
handle_search_command_result(a, r) ==
    IF r.ok
    THEN Step("L346", <<Send(search_card(join(a), AnswerOf(r)))>>)
    ELSE Step("L349", <<Send(SearchErrorReply(r.detail))>>)

\* Lines 347-349 when ctx.send(search_card) raised inside the try.
handle_search_command_except(detail) ==
    Step("L349", <<Send(SearchErrorReply(detail))>>)

handle_message_no_typing == Step("L406", <<>>)

\* await ctx.reply(TypingActivityInput())
handle_message == Step("L406", <<Typing>>)

handle_message_route_unknown_to_llm(user_message) ==
    LET parsed == parse_slash_command(user_message)
        command_ == parsed[1]
        args_ == parsed[2]
        classified(b, s) ==
            [branch |-> b, command |-> command_, args |-> args_, step |-> s]
    IN  IF is_slash_command(user_message)
           /\ command_ \in {<<"h", "e", "l", "p">>, <<"s", "e", "a", "r", "c", "h">>, <<"s", "t", "a", "t", "u", "s">>}
        THEN IF command_ = <<"h", "e", "l", "p">>
             THEN classified("help", handle_help_command)
             ELSE IF command_ = <<"s", "e", "a", "r", "c", "h">>
             THEN classified("search", handle_search_command(args_))
             ELSE classified("status", handle_status_command)
        ELSE [branch |-> "freeform", command |-> None, args |-> <<>>,
              step |-> Step("L431", <<Invoke(user_message)>>)]

\* Lines 410-431: the slash-command branch, or the completion call.
handle_message_route(user_message) ==
    LET parsed == parse_slash_command(user_message)
        command_ == parsed[1]
        args_ == parsed[2]
        classified(b, s) ==
            [branch |-> b, command |-> command_, args |-> args_, step |-> s]
    IN  IF is_slash_command(user_message)
        THEN IF command_ = <<"h", "e", "l", "p">>
             THEN classified("help", handle_help_command)
             ELSE IF command_ = <<"s", "e", "a", "r", "c", "h">>
             THEN classified("search", handle_search_command(args_))
             ELSE IF command_ = <<"s", "t", "a", "t", "u", "s">>
             THEN classified("status", handle_status_command)
             ELSE classified("unknown",
                             Step("L424", <<Send(UnknownReply(command_))>>))
        ELSE [branch |-> "freeform", command |-> None, args |-> <<>>,
              step |-> Step("L431", <<Invoke(user_message)>>)]

handle_message_result_uncaught(r) ==
    IF r.ok
    THEN Step("L435", <<Send(PlainText(AnswerOf(r)))>>)
    ELSE Propagate("completion")

\* Lines 432-435 on a result, 436-440 on an exception of the call.
handle_message_result(r) ==
    IF r.ok
    THEN Step("L435", <<Send(PlainText(AnswerOf(r)))>>)
    ELSE Step("L440", <<Send(error_message(r.detail))>>)

\* Lines 436-440 when ctx.send(answer) raised inside the try.
handle_message_except(detail) == Step("L440", <<Send(error_message(detail))>>)

(***************************************************************************)
(* Actions.                                                                *)
(***************************************************************************)
\* The coroutine of m has seen and done evs and awaits at line `at`.
Goto(m, at, evs) ==
    /\ pc' = [pc EXCEPT ![m] = at]
    /\ log' = [log EXCEPT ![m] = @ \o evs]

\* The call made directly, on the thread of the event loop.
run_in_executor_direct(m, s) ==
    IF \E i \in 1..Len(s.evs) : s.evs[i].ev = "invoke"
    THEN worker' = [worker EXCEPT ![m].st = "running", ![m].thread = "loop"]
    ELSE UNCHANGED worker

\* loop.run_in_executor(None, groq_llm.invoke, prompt) hands the call to a
\* worker thread of the default executor and returns its future, which the
\* coroutine awaits.  The default executor has at least five threads; each
\* call in flight has one of them, the dispatches being fewer.
run_in_executor(m, s) ==
    IF \E i \in 1..Len(s.evs) : s.evs[i].ev = "invoke"
    THEN worker' = [worker EXCEPT ![m].st = "running", ![m].thread = "executor"]
    ELSE UNCHANGED worker

\* The handler of m runs the piece s and awaits its last call.
Continue(m, seen, s) ==
    /\ Goto(m, s.pc, seen \o s.evs)
    /\ run_in_executor(m, s)
    /\ raised' = [raised EXCEPT ![m] = s.exc]

\* The handler of m returns.
Return(m, seen) ==
    /\ Goto(m, "done", seen)
    /\ UNCHANGED <<worker, raised>>

\* An exception leaves the handler of m.
Raise(m, exc, seen) ==
    /\ Goto(m, "done", seen)
    /\ raised' = [raised EXCEPT ![m] = exc]
    /\ UNCHANGED worker

TypingOk == Outcome("typing_result", TRUE, <<>>)
TypingFailed == Outcome("typing_result", FALSE, TransportError)
SendOk == Outcome("send_result", TRUE, <<>>)
SendFailed == Outcome("send_result", FALSE, TransportError)

InvokeResult(r) ==
    Outcome("invoke_result", r.ok, IF r.ok THEN AnswerOf(r) ELSE r.detail)

FetchResult(og_data) ==
    Event("fetch_result",
          Payload("og_data", "", <<og_data.title, og_data.description, og_data.image>>))

\* The thread of the event loop runs one thing at a time: it is free to run
\* a step of a coroutine unless a call is running on it.
EventLoopFree ==
    \A o \in Dispatches : ~(worker[o].st = "running" /\ worker[o].thread = "loop")

\* The dispatch m is stopped at the await of line 324 or 431 and its
\* completion call has not returned.
AwaitsOwnCall(m) == pc[m] \in {"L324", "L431"} /\ worker[m].st = "running"

\* The framework receives a message and starts the selected handler, which
\* runs to its first await.  Of the dispatches in W it is recorded which
\* ones await a completion call in flight at this moment.
Receive(m, t, W) ==
    /\ EventLoopFree
    /\ pc[m] = "idle"
    /\ text' = [text EXCEPT ![m] = t]
    /\ handler' = [handler EXCEPT ![m] = SelectHandler(t)]
    /\ overlap' = [overlap EXCEPT ![m] = {o \in W \ {m} : AwaitsOwnCall(o)}]
    /\ CASE SelectHandler(t) = "handle_greeting" ->
                Continue(m, <<>>, handle_greeting)
         [] SelectHandler(t) = "open_graph_metatags" ->
                Continue(m, <<>>, open_graph_metatags)
         [] SelectHandler(t) = "handle_webpage_request" ->
                Continue(m, <<>>, handle_webpage_request)
         [] SelectHandler(t) = "handle_message" ->
                Continue(m, <<>>, handle_message)
    /\ UNCHANGED <<branch, command, args, ptext, presult>>

\* ctx.reply of line 406 returns or raises; on return lines 407-431 run.
handle_message_L406(m, ok) ==
    /\ EventLoopFree
    /\ pc[m] = "L406"
    /\ IF ok
       THEN LET c == handle_message_route(text[m])
            IN  /\ branch' = [branch EXCEPT ![m] = c.branch]
                /\ command' = [command EXCEPT ![m] = c.command]
                /\ args' = [args EXCEPT ![m] = c.args]
                /\ Continue(m, <<TypingOk>>, c.step)
       ELSE /\ Raise(m, "transport", <<TypingFailed>>)
            /\ UNCHANGED <<branch, command, args>>
    /\ UNCHANGED <<text, handler, overlap, ptext, presult>>

\* ctx.reply of line 319 returns or raises; on return lines 321-324 run.
handle_search_command_L319(m, ok) ==
    /\ EventLoopFree
    /\ pc[m] = "L319"
    /\ IF ok
       THEN Continue(m, <<TypingOk>>, handle_search_command_invoke(args[m]))
       ELSE Raise(m, "transport", <<TypingFailed>>)
    /\ UNCHANGED <<text, handler, branch, command, args, overlap, ptext, presult>>

\* The worker thread of m's completion call ends with result r, whether or
\* not the coroutine still waits for it.
WorkerFinish(m, r) ==
    /\ worker[m].st = "running"
    /\ worker' = [worker EXCEPT ![m].st = "finished", ![m].result = r]
    /\ log' = [log EXCEPT ![m] = @ \o <<InvokeResult(r)>>]
    /\ UNCHANGED <<text, pc, handler, branch, command, args, raised, overlap, ptext, presult>>

\* The future of line 324 is done: the coroutine resumes.
handle_search_command_L324(m) ==
    /\ EventLoopFree
    /\ pc[m] = "L324"
    /\ worker[m].st = "finished"
    /\ Continue(m, <<>>, handle_search_command_result(args[m], worker[m].result))
    /\ UNCHANGED <<text, handler, branch, command, args, overlap, ptext, presult>>

\* ctx.send of line 346 returns, or raises inside the try.
handle_search_command_L346(m, ok) ==
    /\ EventLoopFree
    /\ pc[m] = "L346"
    /\ IF ok
       THEN Return(m, <<SendOk>>)
       ELSE Continue(m, <<SendFailed>>, handle_search_command_except(TransportError))
    /\ UNCHANGED <<text, handler, branch, command, args, overlap, ptext, presult>>

\* The future of line 431 is done: the coroutine resumes.
handle_message_L431(m) ==
    /\ EventLoopFree
    /\ pc[m] = "L431"
    /\ worker[m].st = "finished"
    /\ Continue(m, <<>>, handle_message_result(worker[m].result))
    /\ UNCHANGED <<text, handler, branch, command, args, overlap, ptext, presult>>

\* ctx.send of line 435 returns, or raises inside the try.
handle_message_L435(m, ok) ==
    /\ EventLoopFree
    /\ pc[m] = "L435"
    /\ IF ok
       THEN Return(m, <<SendOk>>)
       ELSE Continue(m, <<SendFailed>>, handle_message_except(TransportError))
    /\ UNCHANGED <<text, handler, branch, command, args, overlap, ptext, presult>>

\* fetch_open_graph_metadata returns (it catches every Exception itself).
open_graph_metatags_L196(m, og_data) ==
    /\ EventLoopFree
    /\ pc[m] = "L196"
    /\ Continue(m, <<FetchResult(og_data)>>, open_graph_metatags_send(og_data))
    /\ UNCHANGED <<text, handler, branch, command, args, overlap, ptext, presult>>

\* The sends outside any try: the handler ends, by return or by the raise.
LastSends == {"L70", "L198", "L265", "L309", "L315", "L349", "L380", "L424", "L440"}

SendReturns(m, ok) ==
    /\ EventLoopFree
    /\ pc[m] \in LastSends
    /\ IF ok
       THEN Return(m, <<SendOk>>)
       ELSE Raise(m, "transport", <<SendFailed>>)
    /\ UNCHANGED <<text, handler, branch, command, args, overlap, ptext, presult>>

Cancelled == Event("cancelled", Payload("CancelledError", "", <<>>))

Cancel_caught(m) ==
    /\ EventLoopFree
    /\ pc[m] \notin {"idle", "done"}
    /\ IF pc[m] \in {"L431", "L435"}
       THEN Continue(m, <<Cancelled>>, handle_message_except(<<"c", "a", "n", "c", "e", "l", "l", "e", "d">>))
       ELSE IF pc[m] \in {"L324", "L346"}
       THEN Continue(m, <<Cancelled>>, handle_search_command_except(<<"c", "a", "n", "c", "e", "l", "l", "e", "d">>))
       ELSE Raise(m, "cancelled", <<Cancelled>>)
    /\ UNCHANGED <<text, handler, branch, command, args, overlap, ptext, presult>>

\* The task of m is cancelled while suspended: CancelledError is thrown in
\* at the await; it is no Exception, so no except clause of the handlers
\* catches it.  A running worker thread is not stopped.
Cancel(m) ==
    /\ EventLoopFree
    /\ pc[m] \notin {"idle", "done"}
    /\ Raise(m, "cancelled", <<Cancelled>>)
    /\ UNCHANGED <<text, handler, branch, command, args, overlap, ptext, presult>>

\* The parser applied to a text on its own.
ParseApply ==
    /\ presult = Unset
    /\ presult' = parse_slash_command(ptext)
    /\ UNCHANGED <<text, pc, handler, branch, command, args, log, worker, raised, overlap, ptext>>

(***************************************************************************)
(* Specifications.                                                         *)
(***************************************************************************)
\* The steps of the handler of m: the framework starting it and the event
\* loop resuming it at an await.
HandlerStep(m, T, W) ==
    \/ \E t \in T : Receive(m, t, W)
    \/ \E ok \in BOOLEAN : handle_message_L406(m, ok)
    \/ \E ok \in BOOLEAN : handle_search_command_L319(m, ok)
    \/ handle_search_command_L324(m)
    \/ \E ok \in BOOLEAN : handle_search_command_L346(m, ok)
    \/ handle_message_L431(m)
    \/ \E ok \in BOOLEAN : handle_message_L435(m, ok)
    \/ \E og_data \in OgResults : open_graph_metatags_L196(m, og_data)
    \/ \E ok \in BOOLEAN : SendReturns(m, ok)

\* The steps of dispatch m that the event loop runs.
LoopStep(m, T, W) ==
    \/ HandlerStep(m, T, W)
    \/ Cancel(m)

\* The steps of dispatch m, those of its worker thread included.
Dispatch(m, T, R, W) ==
    \/ LoopStep(m, T, W)
    \/ \E r \in R : WorkerFinish(m, r)

\* One dispatch, of any text.
Next == Dispatch(1, Texts, LlmResults, {})

Spec == Init /\ [][Next]_vars

\* Concurrent dispatches.
ConcNext == \E m \in Dispatches : Dispatch(m, ConcTexts, ConcLlmResults, {})

ConcSpec == Init /\ [][ConcNext]_vars

\* Two concurrent dispatches, each recording at its arrival whether the
\* other awaits its completion call.
Pair == {1, 2}

PairNext == \E m \in Pair : Dispatch(m, ConcTexts, ConcLlmResults, Pair)

PairSpec == Init /\ [][PairNext]_vars

\* The parser on its own.
InitParse ==
    /\ Init!1 /\ Init!2 /\ Init!3 /\ Init!4 /\ Init!5
    /\ Init!6 /\ Init!7 /\ Init!8 /\ Init!9 /\ Init!10
    /\ ptext \in ParseTexts
    /\ presult = Unset

ParseSpec == InitParse /\ [][ParseApply]_vars
(***************************************************************************)
(* What a dispatch did, read off its log.                                  *)
(***************************************************************************)
PayloadOf(e) == Payload(e.kind, e.card, e.texts)

Calls(m, ev) ==
    LET evs == SelectSeq(log[m], LAMBDA e : e.ev = ev)
    IN  [i \in 1..Len(evs) |-> PayloadOf(evs[i])]

\* The final responses handed to ctx.send, in order.
Sent(m) == Calls(m, "send")

\* The prompts handed to groq_llm.invoke, in order.
Invocations(m) == Calls(m, "invoke")

\* The outcomes the environment gave the dispatch, in order.
Outcomes(m) ==
    SelectSeq(log[m], LAMBDA e : e.ev \in {"typing_result", "send_result",
                                            "invoke_result", "fetch_result"})

Finished(m) == pc[m] = "done" /\ raised[m] # "cancelled"

(***************************************************************************)
(* Reference definitions the claims are stated with.                       *)
(***************************************************************************)
Min(S) == CHOOSE x \in S : \A y \in S : x <= y
Max(S) == CHOOSE x \in S : \A y \in S : x >= y

\* t without its leading and trailing whitespace.
RefTrim(t) ==
    LET solid == {i \in 1..Len(t) : t[i] \notin Whitespace}
    IN  IF solid = {} THEN <<>> ELSE SubSeq(t, Min(solid), Max(solid))

\* The maximal runs of non-whitespace of s, as <<first, last>>.
RefRuns(s) ==
    { r \in (1..Len(s)) \X (1..Len(s)) :
        /\ r[1] <= r[2]
        /\ \A i \in r[1]..r[2] : s[i] \notin Whitespace
        /\ r[1] = 1 \/ s[r[1] - 1] \in Whitespace
        /\ r[2] = Len(s) \/ s[r[2] + 1] \in Whitespace }

RefTokens(s) ==
    [k \in 1..Cardinality(RefRuns(s)) |->
        LET r == CHOOSE r \in RefRuns(s) :
                     Cardinality({q \in RefRuns(s) : q[1] < r[1]}) = k - 1
        IN  SubSeq(s, r[1], r[2])]

RefParse(t) ==
    LET s == RefTrim(t)
        tokens == RefTokens(SubSeq(s, 2, Len(s)))
    IN  IF s = <<>> \/ s[1] # "/" \/ tokens = <<>>
        THEN <<None, <<>>>>
        ELSE <<[i \in 1..Len(tokens[1]) |-> LowerChar(tokens[1][i])],
               SubSeq(tokens, 2, Len(tokens))>>

\* Some stretch of t is the word w.
Somewhere(t, w) == \E i, j \in 1..Len(t) : SubSeq(t, i, j) = w

MatchesGreeting(t) ==
    Somewhere(t, <<"h", "e", "l", "l", "o">>) \/ Somewhere(t, <<"h", "i">>) \/ Somewhere(t, <<"g", "r", "e", "e", "t", "i", "n", "g", "s">>)

MatchesOpenGraph(t) == Somewhere(t, <<"o", "p", "e", "n", " ", "g", "r", "a", "p", "h", " ", "p", "r", "o", "t", "o", "c", "o", "l", " ", "t", "e", "s", "t">>)

MatchesDashboard(t) ==
    \E i, j \in 1..Len(t) :
        [k \in 1..(j - i + 1) |-> LowerChar(t[i + k - 1])] = <<"d", "a", "s", "h", "b", "o", "a", "r", "d">>

MatchesAPattern(t) ==
    MatchesGreeting(t) \/ MatchesOpenGraph(t) \/ MatchesDashboard(t)

PatternHandlers == {"handle_greeting", "open_graph_metatags", "handle_webpage_request"}

HandleMessageLines ==
    {"L406", "L309", "L315", "L319", "L324", "L346", "L349", "L380", "L424",
     "L431", "L435", "L440"}

FreeFormLines == {"L431", "L435", "L440"}

CommandBranches == {"help", "search", "status", "unknown"}

(***************************************************************************)
(* Claims.                                                                 *)
(***************************************************************************)
\* C1: every dispatch that ended (and was not cancelled) handed exactly one
\* final response to ctx.send: never none, never more than one.
C1_ExactlyOneResponse ==
    \A m \in Dispatches : Finished(m) => Len(Sent(m)) = 1

\* C2: when the text matches a registered pattern, the handler that runs is
\* a pattern handler and nothing of handle_message runs: no slash-command
\* branch is taken, no command is parsed, no completion call is made.
C2_PatternStopsDispatch ==
    \A m \in Dispatches :
        (pc[m] # "idle" /\ MatchesAPattern(text[m])) =>
            /\ handler[m] \in PatternHandlers
            /\ pc[m] \notin HandleMessageLines
            /\ branch[m] = "none"
            /\ command[m] = None
            /\ Invocations(m) = <<>>
            /\ worker[m].st = "idle"
            /\ Len(Sent(m)) <= 1

\* C2 witness: "/search hi" is a slash command and contains "hi"; its
\* dispatch ended with the greeting as the only response.
C2_Witness ==
    \E m \in Dispatches :
        /\ text[m] = <<"/", "s", "e", "a", "r", "c", "h", " ", "h", "i">>
        /\ is_slash_command(text[m])
        /\ pc[m] = "done"
        /\ handler[m] = "handle_greeting"
        /\ Len(Sent(m)) = 1

\* C3: a message handle_message classified as a slash command is in the
\* hands of one command handler (help, search, status or unknown) up to the
\* end of its dispatch; the free-form path (the raw text as prompt, lines
\* 431-440) is never run for it.
C3_SlashNeverFreeForm ==
    \A m \in Dispatches :
        (handler[m] = "handle_message" /\ is_slash_command(text[m])) =>
            /\ pc[m] \notin FreeFormLines
            /\ branch[m] \in CommandBranches \cup {"none"}
            /\ branch[m] = "none" => pc[m] = "L406" \/ (pc[m] = "done" /\ Sent(m) = <<>>)
            /\ branch[m] = "help" => pc[m] \in {"L309", "done"}
            /\ branch[m] = "status" => pc[m] \in {"L380", "done"}
            /\ branch[m] = "unknown" => pc[m] \in {"L424", "done"}
            /\ branch[m] = "search" => pc[m] \in {"L315", "L319", "L324", "L346", "L349", "done"}
            /\ \A i \in 1..Len(Invocations(m)) :
                   Invocations(m)[i].texts[1] # text[m]

\* C3 witness: an unrecognized command was classified, answered by the
\* unknown-command branch and its dispatch ended.
C3_Witness ==
    \E m \in Dispatches :
        /\ text[m] = <<"/", "u", "n", "k", "n", "o", "w", "n", "c", "m", "d">>
        /\ branch[m] = "unknown"
        /\ pc[m] = "done"
        /\ Len(Sent(m)) = 1

\* C4: a free-form dispatch whose completion call failed, once resumed, has
\* handed ctx.send exactly one response: a plain text that holds the detail
\* of the error, the word "error" and "try again"; the error of the call
\* is not the exception that leaves the handler.
C4_CompletionFailureAnswered ==
    \A m \in Dispatches :
        ( /\ branch[m] = "freeform"
          /\ worker[m].st = "finished"
          /\ ~worker[m].result.ok
          /\ pc[m] = "L440" \/ Finished(m) ) =>
            /\ Len(Sent(m)) = 1
            /\ Sent(m)[1].kind = "text"
            /\ Somewhere(Sent(m)[1].texts[1], worker[m].result.detail)
            /\ Somewhere(Sent(m)[1].texts[1], <<"e", "r", "r", "o", "r">>)
            /\ Somewhere(Sent(m)[1].texts[1], <<"t", "r", "y", " ", "a", "g", "a", "i", "n">>)
            /\ raised[m] # "completion"

\* C4 witness: the call of a free-form message failed with "timeout" and
\* the dispatch ended.
C4_Witness ==
    \E m \in Dispatches :
        /\ branch[m] = "freeform"
        /\ worker[m].st = "finished"
        /\ worker[m].result.detail = <<"t", "i", "m", "e", "o", "u", "t">>
        /\ pc[m] = "done"
        /\ raised[m] = "none"
        /\ Len(Sent(m)) = 1

\* C5: the handler that runs is the one of the earliest registered pattern
\* found anywhere in the text (greeting, then open graph, then dashboard in
\* any case), and the responses are that handler's alone.
C5_EarliestPatternWins ==
    \A m \in Dispatches :
        pc[m] # "idle" =>
            /\ handler[m] =
                 IF MatchesGreeting(text[m]) THEN "handle_greeting"
                 ELSE IF MatchesOpenGraph(text[m]) THEN "open_graph_metatags"
                 ELSE IF MatchesDashboard(text[m]) THEN "handle_webpage_request"
                 ELSE "handle_message"
            /\ \A i \in 1..Len(Sent(m)) :
                 /\ MatchesGreeting(text[m]) => Sent(m)[i].kind = "text"
                 /\ (~MatchesGreeting(text[m]) /\ MatchesOpenGraph(text[m])) =>
                        Sent(m)[i].card = "og_preview_card"
                 /\ (~MatchesGreeting(text[m]) /\ ~MatchesOpenGraph(text[m])
                       /\ MatchesDashboard(text[m])) =>
                        Sent(m)[i].card = "webpage_card"

\* C5 witness: a text that the greeting pattern and the dashboard pattern
\* both match, the later one first in the text, answered by the greeting.
C5_Witness ==
    \E m \in Dispatches :
        /\ text[m] = <<"d", "a", "s", "h", "b", "o", "a", "r", "d", " ", "h", "i">>
        /\ MatchesGreeting(text[m]) /\ MatchesDashboard(text[m])
        /\ pc[m] = "done"
        /\ handler[m] = "handle_greeting"
        /\ Len(Sent(m)) = 1

\* C6: what parse_slash_command returns is what the reference gives: none
\* unless the trimmed text starts with "/" and a token follows; else the
\* first token in lower case and the other tokens as typed, in order.
C6_ParseAgreesWithReference ==
    presult # Unset => presult = RefParse(ptext)

\* C6 witness: a parsed command with two different arguments, in the order
\* typed: its name was typed in upper case, one argument is set off by a
\* no-break space and keeps its upper case, a letter outside ASCII.
C6_Witness ==
    /\ presult # Unset
    /\ ptext = <<"/", "B", " ", "a", NBSP, "É">>
    /\ presult[1] = <<"b">>
    /\ presult[2] = <<<<"a">>, <<"É">>>>

\* C7: a dispatch that took the unknown-command branch with a command name
\* has handed ctx.send one plain text that names "/" and the name in lower
\* case and points to /help, and has made no completion call.
C7_UnknownCommandReply ==
    \A m \in Dispatches :
        (branch[m] = "unknown" /\ command[m] # None) =>
            /\ command[m] = RefParse(text[m])[1]
            /\ command[m] \notin {<<"h", "e", "l", "p">>, <<"s", "e", "a", "r", "c", "h">>, <<"s", "t", "a", "t", "u", "s">>}
            /\ Len(Sent(m)) = 1
            /\ Sent(m)[1].kind = "text"
            /\ Somewhere(Sent(m)[1].texts[1], <<"/">> \o command[m])
            /\ Somewhere(Sent(m)[1].texts[1], <<"/", "h", "e", "l", "p">>)
            /\ Invocations(m) = <<>>
            /\ worker[m].st = "idle"

\* C7 witness: "/Foo x" was answered and its dispatch ended.
C7_Witness ==
    \E m \in Dispatches :
        /\ text[m] = <<"/", "F", "o", "o", " ", "x">>
        /\ branch[m] = "unknown"
        /\ command[m] = <<"f", "o", "o">>
        /\ pc[m] = "done"
        /\ raised[m] = "none"

\* C8: a dispatch of the search command with no argument has handed
\* ctx.send the usage hint, and only it, and has made no completion call.
C8_SearchWithoutArgs ==
    \A m \in Dispatches :
        (branch[m] = "search" /\ args[m] = <<>>) =>
            /\ Len(Sent(m)) = 1
            /\ Sent(m)[1].kind = "text"
            /\ Somewhere(Sent(m)[1].texts[1], <<"U", "s", "a", "g", "e", ":", " ", "/", "s", "e", "a", "r", "c", "h">>)
            /\ Invocations(m) = <<>>
            /\ worker[m].st = "idle"
            /\ pc[m] \in {"L315", "done"}

\* C8 witness: "/search" followed by blanks only was answered and its
\* dispatch ended.
C8_Witness ==
    \E m \in Dispatches :
        /\ text[m] = <<"/", "s", "e", "a", "r", "c", "h", " ", " ">>
        /\ branch[m] = "search"
        /\ args[m] = <<>>
        /\ pc[m] = "done"
        /\ raised[m] = "none"

\* C9: no dispatch invokes the completion provider more than once, whatever
\* the call or a send returned.
C9_AtMostOneInvocation ==
    \A m \in Dispatches : Len(Invocations(m)) <= 1

\* C9 witness: a search whose one call failed; its dispatch ended with the
\* error reply and without a second call.
C9_Witness ==
    \E m \in Dispatches :
        /\ branch[m] = "search"
        /\ worker[m].st = "finished"
        /\ ~worker[m].result.ok
        /\ pc[m] = "done"
        /\ Len(Invocations(m)) = 1
        /\ Len(Sent(m)) = 1

\* The outcomes the transport and the fetched site gave the dispatch.
TransportOutcomes(m) ==
    SelectSeq(log[m], LAMBDA e : e.ev \in {"typing_result", "send_result",
                                            "fetch_result"})

\* What the completion provider returned to the dispatch.
ProviderResults(m) == SelectSeq(log[m], LAMBDA e : e.ev = "invoke_result")

\* The provider is deterministic on the two dispatches: if it was handed
\* the same prompts it returned the same results.
Deterministic(m1, m2) ==
    Invocations(m1) = Invocations(m2) => ProviderResults(m1) = ProviderResults(m2)
        /\ Invocations(m1) = Invocations(m2)
        /\ Len(Sent(m1)) = 1
        /\ Sent(m1) = Sent(m2)

\* The positions in the log of m of the events named in evs.
Positions(m, evs) == {i \in 1..Len(log[m]) : log[m][i].ev \in evs}

\* C11, as claimed: whatever the message, the first thing its dispatch
\* does is emit a typing indicator, and no completion call or metadata
\* fetch starts before one was emitted.
C11_TypingFirstForEveryMessage ==
    \A m \in Dispatches :
        pc[m] # "idle" =>
            /\ log[m] # <<>>
            /\ log[m][1].ev = "typing"
            /\ \A i \in Positions(m, {"invoke", "fetch"}) :
                   \E j \in Positions(m, {"typing"}) : j < i

\* C11, amended: for a message no registered pattern matches, the typing
\* indicator is the first step of handle_message: it is emitted before the
\* command/completion decision is taken and before any completion call or
\* response of that dispatch.
C11_TypingFirstInHandleMessage ==
    \A m \in Dispatches :
        (pc[m] # "idle" /\ ~MatchesAPattern(text[m])) =>
            /\ handler[m] = "handle_message"
            /\ log[m] # <<>>
            /\ log[m][1].ev = "typing"
            /\ \A i \in Positions(m, {"invoke", "send", "fetch"}) : i > 1
            /\ branch[m] # "none" => (Len(log[m]) >= 2 /\ log[m][2] = TypingOk)

\* C11 witness: a free-form message whose completion call has started
\* after the typing indicator.
C11_Witness ==
    \E m \in Dispatches :
        /\ text[m] = <<"w", "h", "y", "?">>
        /\ ~MatchesAPattern(text[m])
        /\ pc[m] = "L431"
        /\ log[m][1].ev = "typing"
        /\ Positions(m, {"invoke"}) = {3}

\* C12: a dispatch whose typing indicator failed to be sent still goes on
\* and hands its response to ctx.send.
C12_TypingFailureIgnored ==
    \A m \in Dispatches :
        (Finished(m) /\ \E i \in 1..Len(log[m]) : log[m][i] = TypingFailed) =>
            Len(Sent(m)) >= 1

\* The handler of m has a step to take: its message has not arrived yet, or
\* it is stopped at an await other than that of an own completion call
\* that has not returned.
HasHandlerStep(m) == pc[m] # "done" /\ ~AwaitsOwnCall(m)

\* C13: while the completion call of one message is in flight and awaited,
\* the event loop can run the next handler step of every other dispatch
\* that has one: the arrival of its message with the typing indicator, and
\* every resumption up to its response.
C13_NoDispatchWaitsOnAnothersCall ==
    \A m1, m2 \in Dispatches :
        (m1 # m2 /\ AwaitsOwnCall(m1) /\ HasHandlerStep(m2)) =>
            ENABLED HandlerStep(m2, ConcTexts, Pair)

\* C13 witness: a free-form message arrived while the completion call of
\* another was in flight, and had its typing indicator, its own completion
\* call and its answer, the other call still being in flight.
C13_Witness ==
    \E m1, m2 \in Dispatches :
        /\ m1 # m2
        /\ AwaitsOwnCall(m1)
        /\ m1 \in overlap[m2]
        /\ text[m2] = <<"w", "h", "y", "?">>
        /\ pc[m2] = "done"
        /\ raised[m2] = "none"
        /\ Positions(m2, {"typing"}) = {1}
        /\ Len(Invocations(m2)) = 1
        /\ Len(Sent(m2)) = 1

\* The task of m was cancelled while its completion call was in flight:
\* in its log the cancellation follows the call and precedes any result.
CancelledInFlight(m) ==
    \E c \in Positions(m, {"cancelled"}) :
        /\ \E i \in Positions(m, {"invoke"}) : i < c
        /\ \A i \in Positions(m, {"invoke_result"}) : i > c

\* C14: a dispatch cancelled while its completion call was in flight has
\* ended, whether or not the call has returned, and nothing is sent for it:
\* no response precedes the cancellation and a result or error that arrives
\* later is followed by no send.
C14_CancelledCallAbandoned ==
    \A m \in Dispatches :
        CancelledInFlight(m) =>
            /\ pc[m] = "done"
            /\ raised[m] = "cancelled"
            /\ Sent(m) = <<>>
            /\ \A c \in Positions(m, {"cancelled"}) :
                   \A i \in (c + 1)..Len(log[m]) : log[m][i].ev = "invoke_result"

\* C14 witness: a free-form dispatch was cancelled in flight, its call
\* failed afterwards, and no apology was sent.
C14_Witness ==
    \E m \in Dispatches :
        /\ branch[m] = "freeform"
        /\ CancelledInFlight(m)
        /\ worker[m].st = "finished"
        /\ ~worker[m].result.ok
        /\ Sent(m) = <<>>

\* C15: whenever handle_message took the slash-command branch, the parser
\* gave it a command name, so the name is never None.
C15_SlashBranchHasName ==
    \A m \in Dispatches :
        branch[m] \in CommandBranches =>
            /\ command[m] # None
            /\ \A i \in 1..Len(Sent(m)) :
                   Sent(m)[i].kind = "text" => ~Somewhere(Sent(m)[i].texts[1], <<"/", "N", "o", "n", "e">>)

\* C16: no dispatch hands more than one final response to ctx.send,
\* whatever the completion call and the sends returned.
C16_AtMostOneSend ==
    \A m \in Dispatches : Len(Sent(m)) <= 1

\* C17: a dispatch of the search command with arguments that ended has
\* invoked the provider once, with a prompt made of the arguments joined by
\* single blanks, and has handed one response to ctx.send: a card with the
\* answer when the call succeeded, a plain text with the error's detail
\* when it failed.
C17_SearchWithArgs ==
    \A m \in Dispatches :
        (branch[m] = "search" /\ args[m] # <<>> /\ Finished(m)) =>
            /\ Len(Invocations(m)) = 1
            /\ Somewhere(Invocations(m)[1].texts[1], join(args[m]))
            /\ Len(Sent(m)) = 1
            /\ worker[m].st = "finished"
            /\ worker[m].result.ok =>
                   /\ Sent(m)[1].kind = "card"
                   /\ \E k \in 1..Len(Sent(m)[1].texts) :
                          Sent(m)[1].texts[k] = AnswerOf(worker[m].result)
            /\ ~worker[m].result.ok =>
                   /\ Sent(m)[1].kind = "text"
                   /\ Somewhere(Sent(m)[1].texts[1], worker[m].result.detail)
====
